---------------------------- MODULE Spec2Model ----------------------------
(* Model of the economicCalendar scripts:                                  *)
(*   scripts/embalses_dict.py            dict_agua_embalses, _parse        *)
(*   scripts/fetch_earnings_investing.py parse_spanish_date,               *)
(*       aglutinar_eventos_por_dia, scrape_earnings, monday_to_friday      *)
(* Text is a sequence of atoms: single characters (digits, punctuation,    *)
(* the blank) and indivisible words.  Each script is one synchronous run,  *)
(* so each function has a specification of its own: its inputs are drawn   *)
(* in Init and its action applies it.                                      *)
EXTENDS Integers, Sequences, FiniteSets, TLC

VARIABLES
    s, year, psd_ret,       \* parse_spanish_date: argument, date.today().year, result
    response, earn_ret,     \* scrape_earnings: the POST's response, result
    base, when, mtf_ret,    \* monday_to_friday: arguments, result
    df, agl_ret,            \* aglutinar_eventos_por_dia: argument, result
    html, parsed,           \* _parse of dict_agua_embalses: argument, result
    fail_silently,          \* dict_agua_embalses: its argument,
    idx,                    \*   the index in targets of the next target of the loop,
    attempts,               \*   the requests made so far, each with what it fetched,
    last_debug,             \*   last_debug,
    emb_ret                 \*   the result

dateVars == <<s, psd_ret>>
earnVars == <<response, earn_ret>>
weekVars == <<base, when, mtf_ret>>
aglVars == <<df, agl_ret>>
parseVars == <<html, parsed>>
embVars == <<fail_silently, idx, attempts, last_debug, emb_ret>>
vars == <<s, year, psd_ret, response, earn_ret, base, when, mtf_ret, df, agl_ret,
          html, parsed, fail_silently, idx, attempts, last_debug, emb_ret>>

--------------------------------------------------------------------------
(* Bounds of the model *)

MaxDateLen == 5
MaxScanRows == 4
WeekWindow == 21
MaxAglRows == 2
MaxQuals == 2
MaxTxtLen == 3
MaxResultados == 2

--------------------------------------------------------------------------
(* Text helpers: what the str methods of Python do on sequences of atoms *)

SeqsUpTo(S, n) == UNION {[1..k -> S] : k \in 0..n}

Pending == [kind |-> "pending", val |-> <<>>]
Ret(v) == [kind |-> "return", val |-> v]
Raise(e) == [kind |-> "raise", val |-> <<e>>]

\* The functions are run one per specification: these are the variables of the
\* functions a specification does not run.
IdleDate == s = <<>> /\ psd_ret = Pending
IdleYear == year = 0
IdleEarnings ==
    response = [status |-> 0, data |-> <<>>, hasData |-> FALSE] /\ earn_ret = Pending
IdleWeek == base = 0 /\ when = "" /\ mtf_ret = Pending
IdleAglutinar == df = <<>> /\ agl_ret = Pending
IdleParse ==
    html = [seccion |-> FALSE, inside |-> <<>>, outside |-> <<>>] /\ parsed = Pending
IdleEmbalses ==
    /\ fail_silently = TRUE /\ idx = 0 /\ attempts = <<>>
    /\ last_debug = [source |-> "None", markers |-> FALSE] /\ emb_ret = Pending
IdleFetch == year = 0 /\ IdleDate /\ IdleEarnings /\ IdleWeek /\ IdleAglutinar

\* str.replace(a, b) for single-atom a and b
Replace(sq, a, b) == [i \in 1..Len(sq) |-> IF sq[i] = a THEN b ELSE sq[i]]

\* str.replace(a, "")
Remove(sq, a) == SelectSeq(sq, LAMBDA x : x # a)

LowerAtom(a) ==
    CASE a = "Octubre" -> "octubre"
      [] a = "De" -> "de"
      [] OTHER -> a

\* str.lower()
Lower(sq) == [i \in 1..Len(sq) |-> LowerAtom(sq[i])]

RECURSIVE LStrip(_)
LStrip(sq) == IF sq # <<>> /\ Head(sq) = " " THEN LStrip(Tail(sq)) ELSE sq

RECURSIVE RStrip(_)
RStrip(sq) ==
    IF sq # <<>> /\ sq[Len(sq)] = " " THEN RStrip(SubSeq(sq, 1, Len(sq) - 1)) ELSE sq

\* str.strip()
Strip(sq) == RStrip(LStrip(sq))

\* index of the first occurrence of atom a in sq, Len(sq) + 1 when there is none
IndexOf(sq, a) ==
    IF \E i \in 1..Len(sq) : sq[i] = a
    THEN CHOOSE i \in 1..Len(sq) : sq[i] = a /\ \A j \in 1..(i - 1) : sq[j] # a
    ELSE Len(sq) + 1

\* str.split(): split on runs of blanks, no empty parts
RECURSIVE SplitWs(_)
SplitWs(sq) ==
    IF sq = <<>> THEN <<>>
    ELSE IF Head(sq) = " " THEN SplitWs(Tail(sq))
    ELSE LET n == IndexOf(sq, " ")
         IN <<SubSeq(sq, 1, n - 1)>> \o SplitWs(SubSeq(sq, n, Len(sq)))

\* " ".join(tokens) and, in general, sep.join(tokens)
RECURSIVE Join(_, _)
Join(toks, sep) ==
    IF toks = <<>> THEN <<>>
    ELSE IF Len(toks) = 1 THEN toks[1]
    ELSE toks[1] \o <<sep>> \o Join(Tail(toks), sep)

DigitStr == <<"0", "1", "2", "3", "4", "5", "6", "7", "8", "9">>
DecimalDigits == {DigitStr[i] : i \in 1..10}
DigitVal(a) == (CHOOSE i \in 1..10 : DigitStr[i] = a) - 1

\* "sup2" is the character SUPERSCRIPT TWO: str.isdigit() is true of it, int() rejects it
IsDigitChar(a) == a \in DecimalDigits \cup {"sup2"}

\* str.isdigit(): non-empty and every character a digit
IsDigitTok(tok) == tok # <<>> /\ \A i \in 1..Len(tok) : IsDigitChar(tok[i])

\* int(p) succeeds on a token of decimal digits
IsDecimalTok(tok) == tok # <<>> /\ \A i \in 1..Len(tok) : tok[i] \in DecimalDigits

RECURSIVE IntOf(_)
IntOf(tok) ==
    IF tok = <<>> THEN 0
    ELSE IntOf(SubSeq(tok, 1, Len(tok) - 1)) * 10 + DigitVal(tok[Len(tok)])

Pad2(n) == <<DigitStr[((n \div 10) % 10) + 1], DigitStr[(n % 10) + 1]>>
Pad4(n) == Pad2(n \div 100) \o Pad2(n % 100)

--------------------------------------------------------------------------
(* fetch_earnings_investing.py: parse_spanish_date *)

MONTHS_ES ==
    [enero |-> 1, febrero |-> 2, marzo |-> 3, abril |-> 4, mayo |-> 5, junio |-> 6,
     julio |-> 7, agosto |-> 8, septiembre |-> 9, setiembre |-> 9, octubre |-> 10,
     noviembre |-> 11, diciembre |-> 12]

\* p in MONTHS_ES: the token is one word, a key of the table
IsMonthTok(tok) == Len(tok) = 1 /\ tok[1] \in DOMAIN MONTHS_ES

IsLeap(y) == y % 4 = 0 /\ (y % 100 # 0 \/ y % 400 = 0)

DaysInMonth(y, m) ==
    IF m = 2 THEN (IF IsLeap(y) THEN 29 ELSE 28)
    ELSE IF m \in {4, 6, 9, 11} THEN 30 ELSE 31

\* date(y, m, d).isoformat()
isoformat(y, m, d) == Pad4(y) \o <<"-">> \o Pad2(m) \o <<"-">> \o Pad2(d)

\* txt = s.lower().replace(",", " ").replace(".", " ").strip(); parts = txt.split()
DateParts(str) == SplitWs(Strip(Replace(Replace(Lower(str), ",", " "), ".", " ")))

\* the loop over parts without its break: the last all-digit token
DayIndexNoBreak(parts) ==
    IF \E i \in 1..Len(parts) : IsDigitTok(parts[i])
    THEN CHOOSE i \in 1..Len(parts) :
            IsDigitTok(parts[i]) /\ \A j \in (i + 1)..Len(parts) : ~IsDigitTok(parts[j])
    ELSE 0

\* for p in parts: if p.isdigit(): day = int(p); break
\* the index of the token the loop stops at, 0 when it stops at none
DayIndex(parts) ==
    IF \E i \in 1..Len(parts) : IsDigitTok(parts[i])
    THEN CHOOSE i \in 1..Len(parts) :
            IsDigitTok(parts[i]) /\ \A j \in 1..(i - 1) : ~IsDigitTok(parts[j])
    ELSE 0

\* for p in parts: if p in MONTHS_ES: month = MONTHS_ES[p]; break
MonthIndex(parts) ==
    IF \E i \in 1..Len(parts) : IsMonthTok(parts[i])
    THEN CHOOSE i \in 1..Len(parts) :
            IsMonthTok(parts[i]) /\ \A j \in 1..(i - 1) : ~IsMonthTok(parts[j])
    ELSE 0

\* the except clause of parse_spanish_date: pass, then return s
DateExcept(str, e) == Ret(str)

parse_spanish_date(str, y) ==
    LET parts == DateParts(str)
        di == DayIndex(parts)
        mi == MonthIndex(parts)
    IN  IF di # 0 /\ ~IsDecimalTok(parts[di])
        THEN DateExcept(str, "ValueError")              \* int(p) raises
        ELSE LET day == IF di = 0 THEN 0 ELSE IntOf(parts[di])
                 month == IF mi = 0 THEN 0 ELSE MONTHS_ES[parts[mi][1]]
             IN  IF day # 0 /\ month # 0                \* if day and month
                 THEN IF day \in 1..DaysInMonth(y, month)
                      THEN Ret(isoformat(y, month, day))
                      ELSE DateExcept(str, "ValueError") \* date(y, month, day) raises
                 ELSE Ret(str)

\* the characters and words of the texts handed to parse_spanish_date
DateAlphabet ==
    {"0", "2", "9", "sup2", "febrero", "Octubre", " ", ",", "."}

\* date.today().year: a common year and a leap year
Years == {2027, 2028}


InitDate ==
    /\ s \in SeqsUpTo(DateAlphabet, MaxDateLen)
    /\ year \in Years
    /\ psd_ret = Pending
    /\ IdleEarnings /\ IdleWeek /\ IdleAglutinar /\ IdleParse /\ IdleEmbalses

ParseSpanishDate ==
    /\ psd_ret = Pending
    /\ psd_ret' = parse_spanish_date(s, year)
    /\ UNCHANGED <<s, year, earnVars, weekVars, aglVars, parseVars, embVars>>

NextDate == ParseSpanishDate

(* C3: parse_spanish_date never raises.  With the text lower-cased and its commas
   and points turned into blanks, when there is an all-digit token and a token
   that is a key of MONTHS_ES, and the first such day and the first such month
   form a valid date of the current year, the result is that date as YYYY-MM-DD;
   in every other case the result is the argument itself. *)
C3_ParseSpanishDate ==
    psd_ret # Pending =>
        /\ psd_ret.kind = "return"
        /\ LET toks == SplitWs(Replace(Replace(Lower(s), ",", " "), ".", " "))
               days == {i \in 1..Len(toks) : IsDigitTok(toks[i])}
               months == {i \in 1..Len(toks) : toks[i] \in {<<k>> : k \in DOMAIN MONTHS_ES}}
               Min(S) == CHOOSE i \in S : \A j \in S : i <= j
               valid ==
                    /\ days # {} /\ months # {}
                    /\ IsDecimalTok(toks[Min(days)])
                    /\ IntOf(toks[Min(days)]) >= 1
                    /\ IntOf(toks[Min(days)]) <= DaysInMonth(year, MONTHS_ES[toks[Min(months)][1]])
           IN  IF valid
               THEN psd_ret.val = Pad4(year) \o <<"-">>
                                  \o Pad2(MONTHS_ES[toks[Min(months)][1]]) \o <<"-">>
                                  \o Pad2(IntOf(toks[Min(days)]))
               ELSE psd_ret.val = s

\* "9,2.febrero" in 2028: two all-digit tokens, and the day is the first of them
W_C3_ParseSpanishDate ==
    /\ s = <<"9", ",", "2", ".", "febrero">>
    /\ year = 2028
    /\ psd_ret = Ret(<<"2", "0", "2", "8", "-", "0", "2", "-", "0", "9">>)

SpecDate == InitDate /\ [][NextDate]_vars

--------------------------------------------------------------------------
(* fetch_earnings_investing.py: scrape_earnings *)

\* A <tr> of the response: whether it holds a td of class theDay and that cell's
\* stripped text, its number of td cells, whether one of them has the class
\* "left noWrap earnCalCompany", the title of the ceFlags span of the first cell
\* ("nospan" when there is none) and the stripped text of the earnCalCompanyName
\* span of the second cell ("" when there is none).
HeaderRow(text, company) ==
    [theDay |-> TRUE, dayText |-> text, ntds |-> 1, companyCell |-> company,
     flag |-> "nospan", empresa |-> ""]
CompanyRow(n, flag, empresa) ==
    [theDay |-> FALSE, dayText |-> <<>>, ntds |-> n, companyCell |-> TRUE,
     flag |-> flag, empresa |-> empresa]
OtherRow(n) ==
    [theDay |-> FALSE, dayText |-> <<>>, ntds |-> n, companyCell |-> FALSE,
     flag |-> "nospan", empresa |-> ""]

NoDay == [set |-> FALSE, val |-> <<>>]       \* current_day_parsed = None
Day(v) == [set |-> TRUE, val |-> v]

\* lambda x: "ES" if x == "España" else ("EU" if x == "Eurozona" else "US")
Pais2(country) ==
    IF country = "España" THEN "ES" ELSE IF country = "Eurozona" THEN "EU" ELSE "US"

\* country = flag_span.get("title", "").strip() if flag_span else "Desconocido"
Country(row) == IF row.flag = "nospan" THEN "Desconocido" ELSE row.flag

\* temp["País2"] + " Resultado " + temp["Empresa"]
EarningsEvento2(country, empresa) == <<Pais2(country), " ", "Resultado", " ", empresa>>

KeepRowNoDayCheck(empresa, cur) == empresa # ""
\* if not empresa or not current_day_parsed: continue
KeepRow(empresa, cur) == empresa # "" /\ cur.set /\ cur.val # <<>>

\* DataFrame.drop_duplicates(): the first of equal rows is kept
RECURSIVE DropDuplicates(_)
DropDuplicates(sq) ==
    IF sq = <<>> THEN <<>>
    ELSE LET front == DropDuplicates(SubSeq(sq, 1, Len(sq) - 1))
             last == sq[Len(sq)]
         IN  IF \E i \in 1..Len(front) : front[i] = last THEN front ELSE Append(front, last)

\* for row in rows: ...  from row i on, with current_day_parsed = cur and
\* resultados = acc; the result is the list resultados, or the exception raised
RECURSIVE ScanRows(_, _, _, _, _)
ScanRows(rows, i, cur, acc, y) ==
    IF i > Len(rows) THEN Ret(acc)
    ELSE LET row == rows[i] IN
         IF row.theDay
         THEN LET d == parse_spanish_date(row.dayText, y)
              IN  IF d.kind = "raise" THEN d
                  ELSE ScanRows(rows, i + 1, Day(d.val), acc, y)
         ELSE IF row.ntds = 0 THEN ScanRows(rows, i + 1, cur, acc, y)
         ELSE IF ~row.companyCell THEN ScanRows(rows, i + 1, cur, acc, y)
         ELSE IF row.ntds < 2 THEN Raise("IndexError")              \* tds[1]
         ELSE IF ~KeepRow(row.empresa, cur) THEN ScanRows(rows, i + 1, cur, acc, y)
         ELSE ScanRows(rows, i + 1, cur,
                       Append(acc, [Dia |-> cur.val, Country |-> Country(row),
                                    Empresa |-> row.empresa]), y)

scrape_earnings(r, y) ==
    IF r.status # 200 THEN Ret(<<>>)
    ELSE IF ~r.hasData THEN Ret(<<>>)             \* "data" not in data or not data["data"]
    ELSE LET scan == ScanRows(r.data, 1, NoDay, <<>>, y)
         IN  IF scan.kind = "raise" THEN scan
             ELSE Ret(DropDuplicates(
                     [k \in 1..Len(scan.val) |->
                        [Dia |-> scan.val[k].Dia,
                         Evento2 |-> EarningsEvento2(scan.val[k].Country,
                                                     scan.val[k].Empresa)]]))

\* the day-header texts: empty, "2 Octubre", "29 febrero", "vie. 2 feb."
HeaderTexts ==
    {<<>>, <<"2", " ", "Octubre">>, <<"2", "9", " ", "febrero">>,
     <<"vie", ".", " ", "2", " ", "feb", ".">>}

ScanRowKinds ==
    {HeaderRow(h, FALSE) : h \in HeaderTexts} \cup {HeaderRow(<<"2", " ", "Octubre">>, TRUE)}
    \cup {CompanyRow(1, "España", "Acme"), CompanyRow(2, "España", ""),
          CompanyRow(2, "España", "Acme"), CompanyRow(2, "nospan", "Acme")}
    \cup {OtherRow(0), OtherRow(1)}

Responses ==
    {[status |-> 503, data |-> <<>>, hasData |-> FALSE],
     [status |-> 200, data |-> <<>>, hasData |-> FALSE]}
    \cup {[status |-> 200, data |-> d, hasData |-> TRUE] : d \in SeqsUpTo(ScanRowKinds, MaxScanRows)}

InitEarnings ==
    /\ response \in Responses
    /\ year \in Years
    /\ earn_ret = Pending
    /\ IdleDate /\ IdleWeek /\ IdleAglutinar /\ IdleParse /\ IdleEmbalses

ScrapeEarnings ==
    /\ earn_ret = Pending
    /\ earn_ret' = scrape_earnings(response, year)
    /\ UNCHANGED <<response, year, dateVars, weekVars, aglVars, parseVars, embVars>>

NextEarnings == ScrapeEarnings

SpecEarnings == InitEarnings /\ [][NextEarnings]_vars

IsIsoDate(v) ==
    /\ Len(v) = 10
    /\ v[5] = "-" /\ v[8] = "-"
    /\ \A i \in {1, 2, 3, 4, 6, 7, 9, 10} : v[i] \in DecimalDigits

(* C4: every row of the DataFrame returned by scrape_earnings has a Día of the
   form YYYY-MM-DD, whatever the text of the day-header cells. *)
C4_DiaIsIsoDate ==
    earn_ret.kind = "return" =>
        \A k \in 1..Len(earn_ret.val) : IsIsoDate(earn_ret.val[k].Dia)

\* the rows of the response and the row classes of the scan
IsHeader(rows, i) == rows[i].theDay
IsCompany(rows, i) == ~rows[i].theDay /\ rows[i].ntds >= 1 /\ rows[i].companyCell
Headers(rows, i) == {h \in 1..(i - 1) : IsHeader(rows, h)}
Nearest(rows, i) == CHOOSE h \in Headers(rows, i) : \A g \in Headers(rows, i) : g <= h
RowsOf(frame) == {frame[k] : k \in 1..Len(frame)}
Assigned(rows, i, y) ==
    [Dia |-> parse_spanish_date(rows[Nearest(rows, i)].dayText, y).val,
     Evento2 |-> <<Pais2(Country(rows[i])), " ", "Resultado", " ", rows[i].empresa>>]

(* C10 as stated: every company row (here: with its two cells and a company
   name) that follows a day-header is in the output with the day of the nearest
   day-header before it. *)
C10_Original ==
    (earn_ret.kind = "return" /\ response.hasData) =>
        \A i \in 1..Len(response.data) :
            (/\ IsCompany(response.data, i) /\ response.data[i].ntds >= 2
             /\ response.data[i].empresa # ""
             /\ Headers(response.data, i) # {})
            => Assigned(response.data, i, year) \in RowsOf(earn_ret.val)

(* C10 amended: the scan raises IndexError exactly when some company row has a
   single cell; otherwise the output rows are exactly the company rows that have
   a company name and whose nearest preceding day-header has a non-empty text,
   each with the parsed day of that header.  A company row before every
   day-header, or after a day-header of empty text, or without a name, and every
   day-header row, give no output row. *)
C10_NearestHeader ==
    (earn_ret # Pending /\ response.hasData /\ response.status = 200) =>
        LET rows == response.data
            short == {i \in 1..Len(rows) : IsCompany(rows, i) /\ rows[i].ntds < 2}
            kept == {i \in 1..Len(rows) :
                        /\ IsCompany(rows, i)
                        /\ rows[i].empresa # ""
                        /\ Headers(rows, i) # {}
                        /\ rows[Nearest(rows, i)].dayText # <<>>}
        IN  IF short # {}
            THEN earn_ret = Raise("IndexError")
            ELSE /\ earn_ret.kind = "return"
                 /\ RowsOf(earn_ret.val) = {Assigned(rows, i, year) : i \in kept}

\* a company row after an empty day-header that itself follows a dated one is
\* dropped, while a company row right after the dated one is kept
W_C10_NearestHeader ==
    /\ earn_ret.kind = "return"
    /\ response.hasData
    /\ Len(response.data) = 4
    /\ response.data[1] = HeaderRow(<<"2", " ", "Octubre">>, FALSE)
    /\ response.data[2] = CompanyRow(2, "España", "Acme")
    /\ response.data[3] = HeaderRow(<<>>, FALSE)
    /\ response.data[4] = CompanyRow(2, "nospan", "Acme")
    /\ Len(earn_ret.val) = 1

--------------------------------------------------------------------------
(* fetch_earnings_investing.py: monday_to_friday *)
(* A date is its proleptic Gregorian ordinal, date.toordinal(): 1 is 0001-01-01, *)
(* a Monday, and MAXORDINAL is date.max, 9999-12-31, a Friday.                  *)

MINORDINAL == 1
MAXORDINAL == 3652059

\* date + timedelta(days=n): OverflowError when the result is not a date
DateAdd(o, n) ==
    IF o + n >= MINORDINAL /\ o + n <= MAXORDINAL THEN Ret(<<o + n>>) ELSE Raise("OverflowError")

isoweekday(o) == ((o + 6) % 7) + 1
\* date.weekday(): Monday is 0, Sunday is 6
weekday(o) == (o + 6) % 7

monday_to_friday(b, w) ==
    LET start == DateAdd(b, 0 - weekday(b))
    IN  IF start.kind = "raise" THEN start
        ELSE LET start2 == IF w = "next" THEN DateAdd(start.val[1], 7)
                           ELSE IF w = "current" THEN start
                           ELSE Raise("ValueError")
             IN  IF start2.kind = "raise" THEN start2
                 ELSE LET end == DateAdd(start2.val[1], 4)
                      IN  IF end.kind = "raise" THEN end
                          ELSE Ret(<<start2.val[1], end.val[1]>>)

\* the first and the last days of the range of date
BaseDates == (MINORDINAL..(MINORDINAL + WeekWindow - 1))
             \cup ((MAXORDINAL - WeekWindow + 1)..MAXORDINAL)

WhenValues == {"current", "next", "previous"}

InitWeek ==
    /\ base \in BaseDates
    /\ when \in WhenValues
    /\ mtf_ret = Pending
    /\ IdleDate /\ IdleYear /\ IdleEarnings /\ IdleAglutinar /\ IdleParse /\ IdleEmbalses

MondayToFriday ==
    /\ mtf_ret = Pending
    /\ mtf_ret' = monday_to_friday(base, when)
    /\ UNCHANGED <<base, when, year, dateVars, earnVars, aglVars, parseVars, embVars>>

NextWeek == MondayToFriday

SpecWeek == InitWeek /\ [][NextWeek]_vars

IsMonday(o) == o % 7 = 1
IsFriday(o) == o % 7 = 5

(* C7 as stated: for every date base, monday_to_friday returns (start, end) with
   start a Monday and end = start + 4 a Friday; with 'current' start is the
   Monday of the week of base, with 'next' it is 7 days later; any other value
   of when raises ValueError. *)
C7_Original ==
    mtf_ret # Pending =>
        IF when \in {"current", "next"}
        THEN /\ mtf_ret.kind = "return"
             /\ LET start == mtf_ret.val[1]
                    end == mtf_ret.val[2]
                    monday == IF when = "next" THEN start - 7 ELSE start
                IN  /\ IsMonday(start) /\ end = start + 4 /\ IsFriday(end)
                    /\ IsMonday(monday) /\ monday <= base /\ base <= monday + 6
        ELSE mtf_ret = Raise("ValueError")

(* C7 amended: the same, except that with when = 'next' and base in the last
   week of the range of date (the Monday of base is less than 11 days before
   date.max, that is base is 9999-12-27 or later) OverflowError is raised. *)
C7_MondayToFriday ==
    mtf_ret # Pending =>
        IF when = "next" /\ base > MAXORDINAL - 5
        THEN mtf_ret = Raise("OverflowError")
        ELSE IF when \in {"current", "next"}
        THEN /\ mtf_ret.kind = "return"
             /\ LET start == mtf_ret.val[1]
                    end == mtf_ret.val[2]
                    monday == IF when = "next" THEN start - 7 ELSE start
                IN  /\ IsMonday(start) /\ end = start + 4 /\ IsFriday(end)
                    /\ IsMonday(monday) /\ monday <= base /\ base <= monday + 6
        ELSE mtf_ret = Raise("ValueError")

\* a Sunday with when = 'next': the result starts the day after base
W_C7_MondayToFriday ==
    /\ when = "next" /\ base = 7
    /\ mtf_ret = Ret(<<8, 12>>)


--------------------------------------------------------------------------
(* fetch_earnings_investing.py: remove_stopwords_from_event,              *)
(* extraer_base_y_parens, aglutinar_eventos_por_dia                        *)

stopwords_es ==
    {"de", "del", "la", "las", "el", "los", "y", "a", "en", "que",
     "un", "una", "por", "con", "para", "se", "al", "lo", "su", "tras",
     "pero", "son", "etc"}

\* t.lower() in stopwords: the token is one word of the set
IsStopword(tok) == Len(tok) = 1 /\ LowerAtom(tok[1]) \in stopwords_es

remove_stopwords_from_event(text) ==
    Join(SelectSeq(SplitWs(text), LAMBDA tok : ~IsStopword(tok)), " ")

MinOf(S) == CHOOSE i \in S : \A j \in S : i <= j

\* the matches of \(.*?\) in ev from position from on: an opening parenthesis
\* and the first closing one after it
RECURSIVE ParenSpans(_, _)
ParenSpans(ev, from) ==
    LET opens == {i \in from..Len(ev) : ev[i] = "("}
        closes == {j \in (MinOf(opens) + 1)..Len(ev) : ev[j] = ")"}
    IN  IF opens = {} THEN <<>>
        ELSE IF closes = {} THEN <<>>
        ELSE <<<<MinOf(opens), MinOf(closes)>>>> \o ParenSpans(ev, MinOf(closes) + 1)

\* re.sub(r"\(.*?\)", "", evento): the atoms outside every match
OutsideSpans(ev, spans) ==
    LET keep == {i \in 1..Len(ev) :
                    \A k \in 1..Len(spans) : i < spans[k][1] \/ i > spans[k][2]}
        F[i \in 0..Len(ev)] ==
            IF i = 0 THEN <<>> ELSE IF i \in keep THEN Append(F[i - 1], ev[i]) ELSE F[i - 1]
    IN  F[Len(ev)]

extraer_base_y_parens(ev) ==
    LET spans == ParenSpans(ev, 1)
    IN  [base |-> Strip(OutsideSpans(ev, spans)),
         parens |-> [k \in 1..Len(spans) |-> SubSeq(ev, spans[k][1] + 1, spans[k][2] - 1)]]

QualSeps == {"/", ",", ";"}

\* re.split(r"[/,;]\s*", p)
RECURSIVE ReSplit(_)
ReSplit(p) ==
    LET seps == {i \in 1..Len(p) : p[i] \in QualSeps}
    IN  IF seps = {} THEN <<p>>
        ELSE <<SubSeq(p, 1, MinOf(seps) - 1)>>
             \o ReSplit(LStrip(SubSeq(p, MinOf(seps) + 1, Len(p))))

\* the tokens one parenthesis adds to agrupado[clave]
ParenTokens(p) ==
    LET toks == ReSplit(Strip(p))
    IN  {Strip(toks[k]) : k \in 1..Len(toks)} \ {<<>>}

reemplazos_parens ==
    ("Anual" :> "YoY") @@ ("Trimestral" :> "QoQ") @@ ("Mensual" :> "MoM")
    @@ ("1T" :> "Q1") @@ ("2T" :> "Q2") @@ ("3T" :> "Q3") @@ ("4T" :> "Q4")

\* reemplazos_parens.get(elem, elem)
Reemplazo(elem) ==
    IF Len(elem) = 1 /\ elem[1] \in DOMAIN reemplazos_parens
    THEN <<reemplazos_parens[elem[1]]>> ELSE elem

\* the order of str: by character; the words of the model in that order
AtomOrder ==
    <<" ", "(", ")", "/", "1T", "2027-03-01", "2027-03-02", "Anual", "Q1",
      "Ventas", "YoY", "de", "viviendas">>
Rank(a) == CHOOSE i \in 1..Len(AtomOrder) : AtomOrder[i] = a

SeqLess(a, b) ==
    \E k \in 1..(Len(a) + 1) :
        /\ \A i \in 1..(k - 1) : i <= Len(b) /\ a[i] = b[i]
        /\ k <= Len(b)
        /\ (k = Len(a) + 1 \/ Rank(a[k]) < Rank(b[k]))

\* sorted(set of str)
RECURSIVE SortedTexts(_)
SortedTexts(S) ==
    IF S = {} THEN <<>>
    ELSE LET m == CHOOSE x \in S : \A z \in S \ {x} : SeqLess(x, z)
         IN  <<m>> \o SortedTexts(S \ {m})

RowLess(r1, r2) ==
    SeqLess(r1.Dia, r2.Dia) \/ (r1.Dia = r2.Dia /\ SeqLess(r1.Evento2, r2.Evento2))

\* DataFrame.sort_values(["Día", "Evento2"])
RECURSIVE SortRows(_)
SortRows(sq) ==
    IF sq = <<>> THEN <<>>
    ELSE LET m == CHOOSE i \in 1..Len(sq) : \A j \in 1..Len(sq) : ~RowLess(sq[j], sq[i])
         IN  <<sq[m]>> \o SortRows(SubSeq(sq, 1, m - 1) \o SubSeq(sq, m + 1, Len(sq)))

\* the first loop: agrupado after rows i.., as the list of its keys in insertion
\* order, each with its set of tokens
RECURSIVE Agrupar(_, _, _)
Agrupar(rows, i, agrupado) ==
    IF i > Len(rows) THEN agrupado
    ELSE LET dia == Strip(rows[i].Dia)
             evento == Strip(rows[i].Evento2)
             bp == extraer_base_y_parens(evento)
             toks == UNION {ParenTokens(bp.parens[k]) : k \in 1..Len(bp.parens)}
             at == {k \in 1..Len(agrupado) :
                        agrupado[k].dia = dia /\ agrupado[k].base = bp.base}
         IN  IF dia = <<>> \/ evento = <<>> THEN Agrupar(rows, i + 1, agrupado)
             ELSE IF at = {}
             THEN Agrupar(rows, i + 1,
                          Append(agrupado, [dia |-> dia, base |-> bp.base, parens |-> toks]))
             ELSE Agrupar(rows, i + 1,
                          [agrupado EXCEPT ![MinOf(at)].parens = @ \cup toks])

\* the row the second loop makes of one key of agrupado
FilaNueva(g) ==
    LET sorted == SortedTexts(g.parens)
        lista_parens == [k \in 1..Len(sorted) |-> Reemplazo(sorted[k])]
        evento_final ==
            IF lista_parens # <<>>
            THEN g.base \o <<" ", "(">> \o Join(lista_parens, "/") \o <<")">>
            ELSE g.base
    IN  [Dia |-> g.dia, Evento2 |-> remove_stopwords_from_event(evento_final)]

aglutinar_eventos_por_dia(rows) ==
    IF rows = <<>> THEN Ret(<<>>)
    ELSE LET agrupado == Agrupar(rows, 1, <<>>)
             filas_nuevas == [k \in 1..Len(agrupado) |-> FilaNueva(agrupado[k])]
         IN  Ret(SortRows(filas_nuevas))

\* the input events: a base text, then its qualifiers in one parenthesis
Bases == {<<"Ventas", " ", "viviendas">>, <<"Ventas", " ", "de", " ", "viviendas">>}
Quals == {<<"Anual">>, <<"YoY">>, <<"1T">>}
Evento(b, quals) ==
    IF quals = <<>> THEN b ELSE b \o <<" ", "(">> \o Join(quals, "/") \o <<")">>
Eventos == {<<>>} \cup {Evento(b, q) : b \in Bases, q \in SeqsUpTo(Quals, MaxQuals)}
Dias == {<<>>, <<"2027-03-01">>, <<"2027-03-02">>}

InitAglutinar ==
    /\ df \in SeqsUpTo([Dia : Dias, Evento2 : Eventos], MaxAglRows)
    /\ agl_ret = Pending
    /\ IdleDate /\ IdleYear /\ IdleEarnings /\ IdleWeek /\ IdleParse /\ IdleEmbalses

AglutinarEventosPorDia ==
    /\ agl_ret = Pending
    /\ agl_ret' = aglutinar_eventos_por_dia(df)
    /\ UNCHANGED <<df, year, dateVars, earnVars, weekVars, parseVars, embVars>>

NextAglutinar == AglutinarEventosPorDia

SpecAglutinar == InitAglutinar /\ [][NextAglutinar]_vars

\* the groups of the input: the (Día, base) of the rows with a day and an event
Grupos ==
    {<<Strip(df[i].Dia), extraer_base_y_parens(Strip(df[i].Evento2)).base>> :
        i \in {j \in 1..Len(df) : Strip(df[j].Dia) # <<>> /\ Strip(df[j].Evento2) # <<>>}}

\* the qualifiers of the rows of group g, with the replacement table applied
Calificadores(g) ==
    {Reemplazo(q) :
        q \in UNION {UNION {ParenTokens(extraer_base_y_parens(Strip(df[i].Evento2)).parens[k]) :
                            k \in 1..Len(extraer_base_y_parens(Strip(df[i].Evento2)).parens)} :
                     i \in {j \in 1..Len(df) :
                              /\ Strip(df[j].Dia) = g[1]
                              /\ Strip(df[j].Evento2) # <<>>
                              /\ extraer_base_y_parens(Strip(df[j].Evento2)).base = g[2]}}}

\* the qualifiers an output event lists in its parentheses, in order
Listados(ev) ==
    LET bp == extraer_base_y_parens(ev)
    IN  IF Len(bp.parens) = 1 THEN ReSplit(bp.parens[1]) ELSE <<>>

(* C5: for every group of input rows with the same Día and the same base text,
   the output has the event of the group, which lists inside one pair of
   parentheses the union of the qualifiers of the rows of the group with the
   replacement table applied, and no qualifier more than once. *)
C5_QualifiersMergedOnce ==
    agl_ret.kind = "return" =>
        \A g \in Grupos :
            Calificadores(g) # {} =>
                \E k \in 1..Len(agl_ret.val) :
                    LET row == agl_ret.val[k]
                        bp == extraer_base_y_parens(row.Evento2)
                        lista == Listados(row.Evento2)
                    IN  /\ row.Dia = g[1]
                        /\ bp.base = remove_stopwords_from_event(g[2])
                        /\ Len(bp.parens) = 1
                        /\ {lista[i] : i \in 1..Len(lista)} = Calificadores(g)
                        /\ \A i, j \in 1..Len(lista) : lista[i] = lista[j] => i = j

(* C6: no two rows of the table returned by aglutinar_eventos_por_dia have the
   same Día and the same Evento2. *)
C6_NoDuplicateRows ==
    agl_ret.kind = "return" =>
        \A i, j \in 1..Len(agl_ret.val) :
            (agl_ret.val[i].Dia = agl_ret.val[j].Dia
             /\ agl_ret.val[i].Evento2 = agl_ret.val[j].Evento2) => i = j


--------------------------------------------------------------------------
(* embalses_dict.py: _parse *)
(* A page is what _parse reads of it: whether it has a div SeccionCentral, the  *)
(* FilaSeccion rows inside that div and those outside it.  A row is its Campo   *)
(* div, if any, with its stripped text, and the stripped texts of its Resultado *)
(* divs.  A float is the decimal number it is read from, num / 10^exp; the      *)
(* rounding of binary floating point is not modelled.                           *)

lista == <<"AGUA_TOTAL", "VARIACION", "CAPACIDAD", "MISMA SEMANA(t-1)", "MISMA SEMANA (t-10)">>

PNone == [kind |-> "none", val |-> <<>>]
PDict(d) == [kind |-> "dict", val |-> d]

NoNum == [has |-> FALSE, num |-> 0, exp |-> 0]
RECURSIVE Num(_, _)
Num(n, e) == IF e > 0 /\ n % 10 = 0 THEN Num(n \div 10, e - 1) ELSE [has |-> TRUE, num |-> n, exp |-> e]
Mul(f, k) == Num(f.num * k, f.exp)

NoText == [has |-> FALSE, none |-> FALSE, txt |-> <<>>]
Text(v) == [has |-> TRUE, none |-> FALSE, txt |-> v]
NoneText == [has |-> TRUE, none |-> TRUE, txt |-> <<>>]

Fila(hasCampo, campo, resultados) ==
    [hasCampo |-> hasCampo, campo |-> campo, resultados |-> resultados]

Count(txt, a) == Cardinality({i \in 1..Len(txt) : txt[i] = a})

NormalizeAnyPunctuation(txt) ==
    IF Count(txt, ".") >= 1 \/ Count(txt, ",") >= 1
    THEN Replace(Remove(txt, "."), ",", ".")
    ELSE Replace(txt, ",", ".")
\* txt_norm = txt.replace(",", "."); if txt.count(".") >= 1 and "," in txt:
\*     txt_norm = txt.replace(".", "").replace(",", ".")
Normalize(txt) ==
    IF Count(txt, ".") >= 1 /\ Count(txt, ",") >= 1
    THEN Replace(Remove(txt, "."), ",", ".")
    ELSE Replace(txt, ",", ".")

\* float(txt_norm) of a text of digits, points and commas: digits with at most
\* one point; anything else is a ValueError
IsFloat(txt) ==
    /\ \A i \in 1..Len(txt) : txt[i] \in DecimalDigits \cup {"."}
    /\ Count(txt, ".") <= 1
    /\ \E i \in 1..Len(txt) : txt[i] \in DecimalDigits
FloatOf(txt) ==
    Num(IntOf(Remove(txt, ".")),
        IF Count(txt, ".") = 1 THEN Len(txt) - IndexOf(txt, ".") ELSE 0)

\* resultado1: float(txt_norm) * 1000 if key != "VARIACION" else float(txt_norm)
Scale(key, f) == IF key # "VARIACION" THEN Mul(f, 1000) ELSE f

\* for l, r in enumerate(resultados): ...  from the i-th Resultado on
RECURSIVE ParseResultados(_, _, _, _)
ParseResultados(key, res, i, entry) ==
    IF i > Len(res) THEN Ret(entry)
    ELSE LET txt_norm == Normalize(res[i])
         IN  IF ~IsFloat(txt_norm) THEN Raise("ValueError")
             ELSE ParseResultados(key, res, i + 1,
                    IF i = 1
                    THEN [entry EXCEPT !.resultado1 = Scale(key, FloatOf(txt_norm))]
                    ELSE [entry EXCEPT !.resultado2 = FloatOf(txt_norm)])

\* the dates pd.to_datetime(..., format="%d-%m-%Y") reads, each with its isoformat
CampoDates == [x \in {"13-02-2024"} |-> "2024-02-13"]

\* campo_txt.split("(")[1].split(")")[0].strip()
CampoRaw(campo_txt) ==
    IF Count(campo_txt, "(") >= 1 /\ Count(campo_txt, ")") >= 1
    THEN LET after == SubSeq(campo_txt, IndexOf(campo_txt, "(") + 1, Len(campo_txt))
             part == SubSeq(after, 1, IndexOf(after, "(") - 1)
         IN  Strip(SubSeq(part, 1, IndexOf(part, ")") - 1))
    ELSE Strip(campo_txt)

Campo(key, campo_txt) ==
    IF key = "AGUA_TOTAL"
    THEN LET raw == CampoRaw(campo_txt)
         IN  IF Len(raw) = 1 /\ raw[1] \in DOMAIN CampoDates
             THEN Text(<<CampoDates[raw[1]]>>) ELSE NoneText
    ELSE Text(campo_txt)

EmptyEntry == [campo |-> NoText, resultado1 |-> NoNum, resultado2 |-> NoNum]

\* the body of the loop over filas: dict_agua[key] for one row
ParseRow(key, row) ==
    IF ~row.hasCampo THEN Ret(EmptyEntry)
    ELSE ParseResultados(key, row.resultados, 1,
                         [EmptyEntry EXCEPT !.campo = Campo(key, row.campo)])

RECURSIVE ParseFilas(_, _, _)
ParseFilas(filas, k, dict_agua) ==
    IF k > Len(filas) THEN PDict(dict_agua)
    ELSE LET e == ParseRow(lista[k], filas[k])
         IN  IF e.kind = "raise" THEN e
             ELSE ParseFilas(filas, k + 1,
                    [x \in DOMAIN dict_agua \cup {lista[k]} |->
                        IF x = lista[k] THEN e.val ELSE dict_agua[x]])

_parse(page) ==
    LET filas == IF page.seccion THEN page.inside ELSE page.inside \o page.outside
    IN  IF filas = <<>> THEN PNone
        ELSE ParseFilas(SubSeq(filas, 1, IF Len(filas) < Len(lista) THEN Len(filas)
                                         ELSE Len(lista)), 1, <<>>)

\* the characters of the Resultado texts
ResChars == {"1", "5", ".", ","}

\* empty rows, then one row, with or without a Campo div, with its Resultado
\* texts: one of them any text, the others "5"
ParseInputs ==
    {[seccion |-> TRUE, outside |-> <<>>,
      inside |-> [i \in 1..k |->
                    IF i < k THEN Fila(FALSE, <<>>, <<>>)
                    ELSE Fila(c, <<"Campo">>,
                              [j \in 1..n |-> IF j = pos THEN txt ELSE <<"5">>])]] :
        k \in 1..(Len(lista) + 1), c \in BOOLEAN, n \in 1..MaxResultados,
        pos \in 1..MaxResultados, txt \in SeqsUpTo(ResChars, MaxTxtLen)}

InitParse ==
    /\ html \in ParseInputs
    /\ parsed = Pending
    /\ IdleFetch /\ IdleEmbalses

Parse ==
    /\ parsed.kind = "pending"
    /\ parsed' = _parse(html)
    /\ UNCHANGED <<html, year, dateVars, earnVars, weekVars, aglVars, embVars>>

NextParse == Parse

SpecParse == InitParse /\ [][NextParse]_vars

RECURSIVE Pow10(_)
Pow10(e) == IF e = 0 THEN 1 ELSE 10 * Pow10(e - 1)

\* the claim's normalization, character by character
ClaimNorm(txt) ==
    IF (\E i \in 1..Len(txt) : txt[i] = ".") /\ (\E i \in 1..Len(txt) : txt[i] = ",")
    THEN LET kept == SelectSeq(txt, LAMBDA c : c # ".")
         IN  [i \in 1..Len(kept) |-> IF kept[i] = "," THEN "." ELSE kept[i]]
    ELSE [i \in 1..Len(txt) |-> IF txt[i] = "," THEN "." ELSE txt[i]]

(* C9: each Resultado text the parser reads (those of the first five rows that
   have a Campo div) is normalized before conversion: with at least one point
   and a comma, every point is removed and the comma becomes the decimal point;
   otherwise every comma becomes a decimal point.  A text that is no number
   then is a ValueError.  The first Resultado of a row is stored as resultado1,
   multiplied by 1000 for every key except VARIACION, and every later
   Resultado is stored unscaled as resultado2, the last one remaining.  The
   Resultado texts of a row without a Campo div are not read. *)
C9_ResultadoNormalized ==
    (parsed.kind # "pending" /\ Len(html.inside) <= Len(lista)) =>
        LET k == Len(html.inside)
            res == html.inside[k].resultados
            value(i) == FloatOf(ClaimNorm(res[i]))
            \* x is k times v
            Times(x, v, n) == x.has /\ x.num * Pow10(v.exp) = n * v.num * Pow10(x.exp)
        IN  IF ~html.inside[k].hasCampo
            THEN /\ parsed.kind = "dict"
                 /\ ~parsed.val[lista[k]].resultado1.has
                 /\ ~parsed.val[lista[k]].resultado2.has
            ELSE IF \E i \in 1..Len(res) : ~IsFloat(ClaimNorm(res[i]))
            THEN parsed = Raise("ValueError")
            ELSE /\ parsed.kind = "dict"
                 /\ Times(parsed.val[lista[k]].resultado1, value(1),
                          IF lista[k] = "VARIACION" THEN 1 ELSE 1000)
                 /\ IF Len(res) >= 2
                    THEN Times(parsed.val[lista[k]].resultado2, value(Len(res)), 1)
                    ELSE ~parsed.val[lista[k]].resultado2.has

\* the row of CAPACIDAD with the texts "1,5" and "5": 1500 and 5
W_C9_ResultadoNormalized ==
    /\ parsed.kind = "dict"
    /\ Len(html.inside) = 3
    /\ html.inside[3].hasCampo
    /\ html.inside[3].resultados = <<<<"1", ",", "5">>, <<"5">>>>
    /\ parsed.val["CAPACIDAD"].resultado1 = [has |-> TRUE, num |-> 1500, exp |-> 0]
    /\ parsed.val["CAPACIDAD"].resultado2 = [has |-> TRUE, num |-> 5, exp |-> 0]

--------------------------------------------------------------------------
(* embalses_dict.py: dict_agua_embalses *)
(* One step is one iteration of the loop over targets: the request, _parse   *)
(* and what follows; the last iteration runs on into the code after the loop. *)

targetsDirectFirst == <<"direct", "allorigins", "jina">>
\* the names of targets, in the order of the list
targets == <<"allorigins", "direct", "jina">>

\* what requests.get does: it raises, or returns a response with its page
RequestError == [error |-> TRUE, page |-> [seccion |-> FALSE, inside |-> <<>>, outside |-> <<>>]]
Response(page) == [error |-> FALSE, page |-> page]

Propagate(e) == [kind |-> "raise", val |-> <<e>>]
\* except Exception as e: print(...), and the loop goes on
Catch(e) == [kind |-> "continue", val |-> <<e>>]

\* the try block of one iteration: return d, fall out of the try block, or an
\* exception with what the except clause makes of it
TryTarget(fetch) ==
    IF fetch.error THEN Catch("RequestException")
    ELSE LET d == _parse(fetch.page)
         IN  IF d.kind = "raise" THEN Catch(d.val[1])
             ELSE IF d.kind = "dict" /\ "AGUA_TOTAL" \in DOMAIN d.val
             THEN [kind |-> "return", val |-> d.val]
             ELSE [kind |-> "continue", val |-> <<>>]

AlwaysNone(fs) == [kind |-> "none", val |-> <<>>]
\* after the loop: if fail_silently: return None; raise RuntimeError(msg)
Fail(fs) == IF fs THEN [kind |-> "none", val |-> <<>>] ELSE Raise("RuntimeError")

\* last_debug after the try block of one iteration
LastDebug(name, fetch, old) ==
    IF fetch.error THEN old
    ELSE [source |-> name,
          markers |-> _parse(fetch.page).kind = "none"]

AguaRow == Fila(TRUE, <<"Agua", " ", "embalsada", " ", "(", "13-02-2024", ")", ":">>,
                <<<<"3", "1", ".", "8", "6", "0">>, <<"5", "6", ",", "8", "5">>>>)
VariacionRow == Fila(TRUE, <<"Variacion">>, <<<<"1", "5", "1">>, <<"0", ",", "2", "7">>>>)
BadRow == Fila(TRUE, <<"Variacion">>, <<<<"1", ",", "5", ",", "1">>>>)

\* the pages a target may serve: no structure; rows only outside SeccionCentral;
\* the report; the report without SeccionCentral; a row without Campo; a
\* Resultado that is no number in the first row, and in the second
Pages ==
    {[seccion |-> FALSE, inside |-> <<>>, outside |-> <<>>],
     [seccion |-> TRUE, inside |-> <<>>, outside |-> <<AguaRow>>],
     [seccion |-> TRUE, inside |-> <<AguaRow, VariacionRow>>, outside |-> <<>>],
     [seccion |-> FALSE, inside |-> <<>>, outside |-> <<AguaRow>>],
     [seccion |-> TRUE, inside |-> <<Fila(FALSE, <<>>, <<>>)>>, outside |-> <<>>],
     [seccion |-> TRUE, inside |-> <<BadRow>>, outside |-> <<>>],
     [seccion |-> TRUE, inside |-> <<AguaRow, BadRow>>, outside |-> <<>>]}

Fetches == {RequestError} \cup {Response(pg) : pg \in Pages}

InitEmbalses ==
    /\ fail_silently \in BOOLEAN
    /\ idx = 1
    /\ attempts = <<>>
    /\ last_debug = [source |-> "None", markers |-> FALSE]
    /\ emb_ret = Pending
    /\ IdleFetch /\ IdleParse

Iterate ==
    /\ emb_ret.kind = "pending"
    /\ idx <= Len(targets)
    /\ \E fetch \in Fetches :
          LET name == targets[idx]
              out == TryTarget(fetch)
          IN  /\ attempts' = Append(attempts, [name |-> name, fetch |-> fetch])
              /\ last_debug' = LastDebug(name, fetch, last_debug)
              /\ idx' = idx + 1
              /\ emb_ret' = IF out.kind = "return" THEN [kind |-> "dict", val |-> out.val]
                            ELSE IF out.kind = "raise" THEN out
                            ELSE IF idx = Len(targets) THEN Fail(fail_silently)
                            ELSE emb_ret
    /\ UNCHANGED <<fail_silently, year, dateVars, earnVars, weekVars, aglVars, parseVars>>

NextEmbalses == Iterate

SpecEmbalses == InitEmbalses /\ [][NextEmbalses]_vars

\* a fetch that gives the result: its page parses into a dict with AGUA_TOTAL
Succeeds(fetch) ==
    /\ ~fetch.error
    /\ _parse(fetch.page).kind = "dict"
    /\ "AGUA_TOTAL" \in DOMAIN _parse(fetch.page).val

\* a fetch that ends in an exception: of the request, or of _parse
Throws(fetch) == fetch.error \/ _parse(fetch.page).kind = "raise"

(* C1: the targets are requested one at a time in the order allorigins, direct,
   jina; a target is requested only if every target before it failed; as soon
   as one response parses into a dict with AGUA_TOTAL that dict is returned and
   no later target is requested. *)
C1_FirstSuccessStops ==
    /\ Len(attempts) <= 3
    /\ \A i \in 1..Len(attempts) :
          /\ attempts[i].name = <<"allorigins", "direct", "jina">>[i]
          /\ \A j \in 1..(i - 1) : ~Succeeds(attempts[j].fetch)
          /\ Succeeds(attempts[i].fetch) =>
                /\ i = Len(attempts)
                /\ emb_ret.kind = "dict"
                /\ emb_ret.val = _parse(attempts[i].fetch.page).val
                /\ ~ENABLED Iterate
    /\ emb_ret.kind = "dict" => Len(attempts) >= 1 /\ Succeeds(attempts[Len(attempts)].fetch)

\* allorigins failed, direct served the report: jina is not requested
W_C1_FirstSuccessStops ==
    /\ Len(attempts) = 2
    /\ ~Succeeds(attempts[1].fetch)
    /\ Succeeds(attempts[2].fetch)
    /\ emb_ret.kind = "dict"
    /\ emb_ret.val["AGUA_TOTAL"].resultado1 = [has |-> TRUE, num |-> 31860, exp |-> 0]

(* C2: when none of the targets yields a parseable page the result is None if
   fail_silently and RuntimeError raised if not; and None is returned or
   RuntimeError raised only after all three targets were tried and failed. *)
C2_FailAfterAllTargets ==
    LET allFailed == Len(attempts) = 3 /\ \A i \in 1..3 : ~Succeeds(attempts[i].fetch)
    IN  /\ allFailed => emb_ret.kind = (IF fail_silently THEN "none" ELSE "raise")
        /\ emb_ret.kind = "raise" => emb_ret = Raise("RuntimeError")
        /\ emb_ret.kind \in {"none", "raise"} => allFailed

\* three failures of three kinds, fail_silently false: RuntimeError
W_C2_FailAfterAllTargets ==
    /\ ~fail_silently
    /\ Len(attempts) = 3
    /\ attempts[1].fetch.error
    /\ ~attempts[2].fetch.error /\ _parse(attempts[2].fetch.page).kind = "none"
    /\ ~attempts[3].fetch.error /\ _parse(attempts[3].fetch.page).kind = "raise"
    /\ emb_ret = Raise("RuntimeError")

(* C8: an exception raised while fetching or parsing one target never reaches
   the caller, and the targets after it are still tried in order: after such an
   exception at a target before the last the loop goes on to the next target,
   and the only exception the function ends with is the RuntimeError after the
   last target, when fail_silently is false. *)
C8_ExceptionsCaught ==
    /\ \A i \in 1..Len(attempts) :
          Throws(attempts[i].fetch) =>
             IF i < 3
             THEN IF i = Len(attempts)
                  THEN emb_ret.kind = "pending" /\ ENABLED Iterate /\ idx = i + 1
                  ELSE attempts[i + 1].name = <<"allorigins", "direct", "jina">>[i + 1]
             ELSE emb_ret.kind = (IF fail_silently THEN "none" ELSE "raise")
    /\ emb_ret.kind = "raise" =>
          /\ emb_ret = Raise("RuntimeError")
          /\ ~fail_silently /\ Len(attempts) = 3

\* the request to allorigins raised, the page of direct had a Resultado that is
\* no number, and jina served the report
W_C8_ExceptionsCaught ==
    /\ Len(attempts) = 3
    /\ attempts[1].fetch.error
    /\ ~attempts[2].fetch.error /\ _parse(attempts[2].fetch.page).kind = "raise"
    /\ Succeeds(attempts[3].fetch)
    /\ emb_ret.kind = "dict"


==========================================================================
